---- MODULE Spec2Model ----
(***************************************************************************)
(* Model of the DigitalOcean API session of src/index.ts: the transport    *)
(* RestApiSession.request, the createDroplet provisioning flow with its    *)
(* finalizing-window retry, and the simple session operations built on the *)
(* transport; and of the ValueStream of src/unnamed/part_000 with its      *)
(* watch() generators.                                                     *)
(*                                                                         *)
(* JavaScript strings are sequences of one-character strings, so that      *)
(* toLowerCase, indexOf and the template literal of the error message are  *)
(* computed as the code computes them.  JavaScript values are tagged       *)
(* records: [t |-> "string", s |-> chars], [t |-> "object", <fields>].     *)
(*                                                                         *)
(* request() awaits axios inside try/catch and passes no validateStatus.   *)
(* Under axios' default (package.json: axios ^0.27.2) a response outside   *)
(* 200..299 makes the await throw, as a transport failure does, and the    *)
(* catch block only logs.  The status branches for 401 and the other       *)
(* statuses run only when validateStatus has been switched off for the     *)
(* process; the model keeps both settings, fixed from the initial state.   *)
(***************************************************************************)
EXTENDS Integers, Sequences, FiniteSets, TLC

VARIABLES
    validateStatus, \* axios' validateStatus setting in force for the process
    pc,             \* position of the createDroplet flow
    req,            \* the flow's latest request() promise
    requestCount,   \* makeCreateDropletRequest's requestCount
    keyId,          \* key id handed to makeCreateDropletRequest (0: none yet)
    result,         \* the promise createDroplet returned
    keyRequests,    \* history: POST account/keys requests issued
    createRequests, \* history: POST droplets requests issued
    attempts,       \* history: how each creation request's promise ended
    answers,        \* history: what the provider answered to each of them
    opKind,         \* the simple session operation in progress
    opReq,          \* its request() promise
    opResult,       \* the promise the operation returned
    opId,           \* the dropletId argument of deleteDroplet (0: none)
    opTag,          \* the tag argument of getDropletsByTag
    opActionPath,   \* the actionPath the operation handed to request()
    displayName,    \* the displayName argument of createDroplet
    dropletName,    \* createDroplet's dropletName
    sentNames,      \* history: the name in the body of each POST issued
    elapsed,        \* milliseconds since the retry timer was set
    current,        \* the createDroplet call the flow variables belong to
    other,          \* the flow variables of the other createDroplet call
    value,          \* ValueStream.value
    wakers,         \* ValueStream.wakers: the watchers whose resolve it holds
    setCalls,       \* history: calls of set()
    closeCalls,     \* history: calls of close()
    thrown,         \* the message of the error the last set() threw
    watchPc,        \* where each watch() generator stands
    nextChange,     \* each generator's nextChange promise
    yielded,        \* the value each generator yielded last
    yieldsWhenClosed, \* history: yields of each generator on a closed stream
    startedClosed,  \* history: the generator took its first step when closed
    wakerCalls      \* history: invocations of each generator's latest waker

vars == <<validateStatus, pc, req, requestCount, keyId, result,
          keyRequests, createRequests, attempts, answers,
          opKind, opReq, opResult, opId, opTag, opActionPath,
          displayName, dropletName, sentNames, elapsed, current, other,
          value, wakers, setCalls, closeCalls, thrown, watchPc, nextChange,
          yielded, yieldsWhenClosed, startedClosed, wakerCalls>>

flowVars == <<pc, req, requestCount, keyId, result,
              keyRequests, createRequests, attempts, answers,
              displayName, dropletName, sentNames, elapsed>>

opVars == <<opKind, opReq, opResult, opId, opTag, opActionPath>>

callVars == <<current, other>>

streamVars == <<value, wakers, setCalls, closeCalls, thrown, watchPc,
                nextChange, yielded, yieldsWhenClosed, startedClosed,
                wakerCalls>>

---------------------------------------------------------------------------
(* Strings                                                                 *)

UpperChars == <<"A","B","C","D","E","F","G","H","I","J","K","L","M",
                "N","O","P","Q","R","S","T","U","V","W","X","Y","Z">>

LowerChars == <<"a","b","c","d","e","f","g","h","i","j","k","l","m",
                "n","o","p","q","r","s","t","u","v","w","x","y","z">>

DigitChars == <<"0","1","2","3","4","5","6","7","8","9">>

LowerOf(c) ==
    IF \E i \in 1..Len(UpperChars) : UpperChars[i] = c
    THEN LowerChars[CHOOSE i \in 1..Len(UpperChars) : UpperChars[i] = c]
    ELSE c

\* String.prototype.toLowerCase
toLowerCase(s) == [i \in 1..Len(s) |-> LowerOf(s[i])]

\* String.prototype.indexOf: the first 0-based position of sub in s, or -1
indexOf(s, sub) ==
    LET hits == {i \in 0..(Len(s) - Len(sub)) :
                    SubSeq(s, i + 1, i + Len(sub)) = sub}
    IN  IF hits = {} THEN -1
        ELSE CHOOSE i \in hits : \A j \in hits : i <= j

\* decimal text of a natural number, as a template literal prints it
RECURSIVE NumberToString(_)
NumberToString(n) ==
    IF n < 10 THEN <<DigitChars[n + 1]>>
    ELSE NumberToString(n \div 10) \o <<DigitChars[(n % 10) + 1]>>

StrFinalizing == <<"f","i","n","a","l","i","z","i","n","g">>
StrXHR == <<"X","H","R"," ">>
StrFailedWith == <<" ","f","a","i","l","e","d"," ","w","i","t","h"," ">>
StrColon == <<":"," ">>
StrUndefined == <<"u","n","d","e","f","i","n","e","d">>
StrCannotReadId ==
    <<"C","a","n","n","o","t"," ","r","e","a","d"," ","p","r","o","p","e","r",
      "t","i","e","s"," ","o","f"," ","u","n","d","e","f","i","n","e","d"," ",
      "(","r","e","a","d","i","n","g"," ","'","i","d","'",")">>

---------------------------------------------------------------------------
(* What the provider may answer                                            *)

IdForbidden == <<"f","o","r","b","i","d","d","e","n">>
IdNotFound == <<"n","o","t","_","f","o","u","n","d">>
MsgFinalizing ==
    <<"A","c","c","o","u","n","t"," ","i","s"," ",
      "F","i","n","a","l","i","z","i","n","g">>
MsgFINALIZING ==
    <<"s","t","i","l","l"," ","F","I","N","A","L","I","Z","I","N","G">>
MsgNotFound ==
    <<"d","r","o","p","l","e","t"," ","n","o","t"," ","f","o","u","n","d">>

MaxKeyId == 1
MaxDropletId == 2

Undefined == [t |-> "undefined"]
EmptyString == [t |-> "string", s |-> <<>>]
EmptyObject == [t |-> "object"]

KeyData(k) == [t |-> "object", ssh_key |-> [id |-> k]]
DropletData(d) == [t |-> "object", droplet |-> [id |-> d]]
AccountData == [t |-> "object", account |-> [status |-> "active"]]
DropletsData ==
    [t |-> "object", droplets |-> [t |-> "array", items |-> <<1, 2>>]]
ErrorData(id, message) == [t |-> "object", id |-> id, message |-> message]

ErrorBodies ==
    { ErrorData(IdForbidden, MsgFinalizing),
      ErrorData(IdForbidden, MsgFINALIZING),
      ErrorData(IdNotFound, MsgNotFound) }

\* response.data as axios hands it over: '' for an empty body, else the
\* parsed JSON object
Bodies ==
    {EmptyString, AccountData, DropletsData}
        \cup {KeyData(k) : k \in 1..MaxKeyId}
        \cup {DropletData(d) : d \in 1..MaxDropletId}
        \cup ErrorBodies

Statuses == {200, 204, 299, 300, 401, 404}

\* the outcome of the HTTP exchange: a response, or a transport-level
\* failure (DNS, connection reset, timeout)
HttpOutcomes ==
    [kind : {"response"}, status : Statuses, data : Bodies]
        \cup {[kind |-> "failure"]}

---------------------------------------------------------------------------
(* Transport: RestApiSession.request                                       *)

\* JavaScript truthiness of a value
Truthy(v) == v.t = "object" \/ (v.t = "string" /\ v.s # <<>>)

\* `${v.name}` for a string-valued or missing property
PropertyText(v, name) ==
    IF name \in DOMAIN v THEN v[name] ELSE StrUndefined

XhrError == [name |-> "XhrError", message |-> <<>>]

Error(message) == [name |-> "Error", message |-> message]

TypeError(message) == [name |-> "TypeError", message |-> message]

Fulfilled(v) == [st |-> "fulfilled", value |-> v]
Rejected(e) == [st |-> "rejected", value |-> e]
Pending == [st |-> "pending"]

\* the validateStatus settings axios may run the call under: the call gives
\* none of its own, so the process-wide one applies, "default" (2xx only)
\* unless it has been switched off
ValidateStatusSettings == {"default", "off"}

\* whether `await axios(...)` throws: on a transport failure, and on a
\* response whose status validateStatus turns down (axios' own default
\* accepts 200..299 only; the call passes no validateStatus of its own)
AxiosThrows(out, vs) ==
    \/ out.kind = "failure"
    \/ /\ out.kind = "response"
       /\ vs = "default"
       /\ ~(out.status >= 200 /\ out.status < 300)

\* new Error(`XHR ${responseJson.id} failed with ${response.status}: ${responseJson.message}`)
RequestFailure(response) ==
    Error(StrXHR \o PropertyText(response.data, "id") \o StrFailedWith
            \o NumberToString(response.status) \o StrColon
            \o PropertyText(response.data, "message"))

\* request() with the success test written status < 299
requestBelow299(out, vs) ==
    IF AxiosThrows(out, vs)
    THEN [st |-> "swallowed"]
    ELSE IF out.status >= 200 /\ out.status < 299
         THEN Fulfilled(IF Truthy(out.data) THEN out.data ELSE EmptyObject)
         ELSE IF out.status = 401
              THEN Rejected(XhrError)
              ELSE Rejected(RequestFailure(out))

\* the state in which request()'s promise is left once its executor has run
\* on the outcome: "swallowed" is the catch block, which settles nothing
request(out, vs) ==
    IF AxiosThrows(out, vs)
    THEN [st |-> "swallowed"]
    ELSE IF out.status >= 200 /\ out.status <= 299
         THEN Fulfilled(IF Truthy(out.data) THEN out.data ELSE EmptyObject)
         ELSE IF out.status = 401
              THEN Rejected(XhrError)
              ELSE Rejected(RequestFailure(out))

NoRequest == [st |-> "none"]
InFlight(path) == [st |-> "inflight", path |-> path]
Settled(r, out, vs) ==
    [st |-> request(out, vs).st, path |-> r.path, out |-> out,
     value |-> IF request(out, vs).st = "swallowed" THEN Undefined
               ELSE request(out, vs).value]

---------------------------------------------------------------------------
(* createDroplet and makeCreateDropletRequest                              *)

MAX_REQUESTS == 10
RETRY_TIMEOUT_MS == 5000

\* the retry test without toLowerCase
ShouldRetryCaseSensitive(e, count) ==
    indexOf(e.message, StrFinalizing) >= 0 /\ count < MAX_REQUESTS

\* a retry test that still retries after the tenth request
ShouldRetryAtMax(e, count) ==
    indexOf(toLowerCase(e.message), StrFinalizing) >= 0 /\ count <= MAX_REQUESTS

\* the retry test of the catch handler
ShouldRetry(e, count) ==
    indexOf(toLowerCase(e.message), StrFinalizing) >= 0 /\ count < MAX_REQUESTS

\* the granularity of time in the model, in milliseconds
TickMs == 2500

\* the characters /[^A-Za-z0-9-]/ does not match
ValidNameChars ==
    {UpperChars[i] : i \in 1..Len(UpperChars)}
        \cup {LowerChars[i] : i \in 1..Len(LowerChars)}
        \cup {DigitChars[i] : i \in 1..Len(DigitChars)}
        \cup {"-"}

\* name.replace(re, '') for a global re matching single characters outside
\* keep: every match is removed
RECURSIVE ReplaceAllOutside(_, _)
ReplaceAllOutside(name, keep) ==
    IF name = <<>> THEN <<>>
    ELSE (IF Head(name) \in keep THEN <<Head(name)>> ELSE <<>>)
            \o ReplaceAllOutside(Tail(name), keep)

\* a sanitization that takes the hyphen for invalid, too
makeValidDropletNameNoHyphen(name) ==
    ReplaceAllOutside(name, ValidNameChars \ {"-"})

makeValidDropletName(name) == ReplaceAllOutside(name, ValidNameChars)

\* all strings over chars of length up to n
RECURSIVE StringsUpTo(_, _)
StringsUpTo(chars, n) ==
    IF n = 0 THEN {<<>>}
    ELSE StringsUpTo(chars, n - 1)
            \cup {<<c>> \o s : c \in chars,
                               s \in {t \in StringsUpTo(chars, n - 1) :
                                          Len(t) = n - 1}}

\* display names of the provisioning flow: "My Node! #1" and "a-b"
DisplayNames ==
    { <<"M","y"," ","N","o","d","e","!"," ","#","1">>, <<"a","-","b">> }

MaxNameLen == 3

NameChars == {"a", "Z", "9", "-", "#", " "}

\* display names for the sanitization: every string over NameChars
Names == StringsUpTo(NameChars, MaxNameLen)

\* how a creation request settled, for the history
MentionsFinalizing(msg) ==
    \E i \in 1..Len(msg) :
        /\ i + Len(StrFinalizing) - 1 <= Len(msg)
        /\ \A j \in 1..Len(StrFinalizing) :
              \/ msg[i + j - 1] = StrFinalizing[j]
              \/ \E u \in 1..Len(UpperChars) :
                    /\ msg[i + j - 1] = UpperChars[u]
                    /\ LowerChars[u] = StrFinalizing[j]

\* what the provider answered, for the history
AnswerClass(out) ==
    CASE out.kind = "failure" -> "failure"
      [] out.kind = "response" /\ out.status >= 200 /\ out.status <= 299 -> "success"
      [] out.kind = "response" /\ out.status = 401 -> "unauthorized"
      [] OTHER ->
            IF "message" \in DOMAIN out.data /\ MentionsFinalizing(out.data.message)
            THEN "finalizing" ELSE "other"

AttemptClass(r) ==
    CASE r.st = "fulfilled" -> "ok"
      [] r.st = "swallowed" -> "unsettled"
      [] r.st = "rejected" ->
            IF MentionsFinalizing(r.value.message) THEN "finalizing" ELSE "other"

---------------------------------------------------------------------------
(* ValueStream                                                             *)

NumWatchers == 2

\* the watch() generators
Watchers == 1..NumWatchers

MaxValue == 1

\* the values of the stream
Values == 0..MaxValue

MaxSetCalls == 2

MaxCloseCalls == 2

Null == [t |-> "null"]

Array(items) == [t |-> "array", items |-> items]

StrCannotChange == "Cannot change a closed value stream"

isClosed == wakers = Null

\* how often the waker of generator w is in the array a
CountIn(a, w) == Cardinality({i \in 1..Len(a.items) : a.items[i] = w})

\* wakers.forEach((waker) => waker(closed)): a promise is resolved once
Resolved(a, closed) ==
    [w \in Watchers |->
        IF CountIn(a, w) > 0 /\ nextChange[w] = "pending"
        THEN closed ELSE nextChange[w]]

Invoked(a) == [w \in Watchers |-> wakerCalls[w] + CountIn(a, w)]

\* the state of a new stream: constructor(value), wakers = []
InitStream ==
    /\ value = 0
    /\ wakers = Array(<<>>)
    /\ setCalls = 0
    /\ closeCalls = 0
    /\ thrown = "none"
    /\ watchPc = [w \in Watchers |-> "start"]
    /\ nextChange = [w \in Watchers |-> "none"]
    /\ yielded = [w \in Watchers |-> 0]
    /\ yieldsWhenClosed = [w \in Watchers |-> 0]
    /\ startedClosed = [w \in Watchers |-> FALSE]
    /\ wakerCalls = [w \in Watchers |-> 0]

\* a set() without the test for a closed stream
setUnguarded ==
    /\ setCalls < MaxSetCalls
    /\ setCalls' = setCalls + 1
    /\ \E newValue \in Values :
          /\ value' = newValue
          /\ thrown' = "none"
          /\ IF isClosed
             THEN UNCHANGED <<wakers, nextChange, wakerCalls>>
             ELSE /\ wakers' = Array(<<>>)
                  /\ nextChange' = Resolved(wakers, "false")
                  /\ wakerCalls' = Invoked(wakers)
    /\ UNCHANGED <<closeCalls, watchPc, yielded, yieldsWhenClosed,
                   startedClosed>>
    /\ UNCHANGED <<validateStatus, flowVars, opVars, callVars>>

\* a set() that drops the wakers without calling them
setForgetsWakers ==
    /\ setCalls < MaxSetCalls
    /\ setCalls' = setCalls + 1
    /\ \E newValue \in Values :
          IF isClosed
          THEN /\ thrown' = StrCannotChange
               /\ UNCHANGED <<value, wakers>>
          ELSE /\ value' = newValue
               /\ wakers' = Array(<<>>)
               /\ thrown' = "none"
    /\ UNCHANGED <<nextChange, wakerCalls>>
    /\ UNCHANGED <<closeCalls, watchPc, yielded, yieldsWhenClosed,
                   startedClosed>>
    /\ UNCHANGED <<validateStatus, flowVars, opVars, callVars>>

\* set(newValue)
set ==
    /\ setCalls < MaxSetCalls
    /\ setCalls' = setCalls + 1
    /\ \E newValue \in Values :
          IF isClosed
          THEN /\ thrown' = StrCannotChange
               /\ UNCHANGED <<value, wakers, nextChange, wakerCalls>>
          ELSE /\ value' = newValue
               /\ wakers' = Array(<<>>)
               /\ nextChange' = Resolved(wakers, "false")
               /\ wakerCalls' = Invoked(wakers)
               /\ thrown' = "none"
    /\ UNCHANGED <<closeCalls, watchPc, yielded, yieldsWhenClosed,
                   startedClosed>>
    /\ UNCHANGED <<validateStatus, flowVars, opVars, callVars>>

\* a close() that drops the wakers without calling them
closeForgetsWakers ==
    /\ closeCalls < MaxCloseCalls
    /\ closeCalls' = closeCalls + 1
    /\ IF isClosed THEN UNCHANGED wakers ELSE wakers' = Null
    /\ UNCHANGED <<nextChange, wakerCalls>>
    /\ UNCHANGED <<value, setCalls, thrown, watchPc, yielded, yieldsWhenClosed,
                   startedClosed>>
    /\ UNCHANGED <<validateStatus, flowVars, opVars, callVars>>

\* close()
close ==
    /\ closeCalls < MaxCloseCalls
    /\ closeCalls' = closeCalls + 1
    /\ IF isClosed
       THEN UNCHANGED <<wakers, nextChange, wakerCalls>>
       ELSE /\ wakers' = Null
            /\ nextChange' = Resolved(wakers, "true")
            /\ wakerCalls' = Invoked(wakers)
    /\ UNCHANGED <<value, setCalls, thrown, watchPc, yielded, yieldsWhenClosed,
                   startedClosed>>
    /\ UNCHANGED <<validateStatus, flowVars, opVars, callVars>>

\* const nextChange = this.nextChange(); yield this.value;
LoopBody(w) ==
    /\ nextChange' = [nextChange EXCEPT ![w] =
                        IF isClosed THEN "true" ELSE "pending"]
    /\ wakers' = IF isClosed THEN wakers ELSE Array(Append(wakers.items, w))
    /\ wakerCalls' = [wakerCalls EXCEPT ![w] = 0]
    /\ yielded' = [yielded EXCEPT ![w] = value]
    /\ yieldsWhenClosed' = [yieldsWhenClosed EXCEPT ![w] =
                        IF isClosed THEN @ + 1 ELSE @]
    /\ watchPc' = [watchPc EXCEPT ![w] = "yield"]

\* the first next() of a watch() generator: runs to the first yield
WatchStarts(w) ==
    /\ watchPc[w] = "start"
    /\ startedClosed' = [startedClosed EXCEPT ![w] = isClosed]
    /\ LoopBody(w)
    /\ UNCHANGED <<value, setCalls, closeCalls, thrown>>
    /\ UNCHANGED <<validateStatus, flowVars, opVars, callVars>>

\* the consumer pulls again: the generator goes on to await nextChange
WatchResumes(w) ==
    /\ watchPc[w] = "yield"
    /\ watchPc' = [watchPc EXCEPT ![w] = "await"]
    /\ UNCHANGED <<value, wakers, setCalls, closeCalls, thrown, nextChange,
                   yielded, yieldsWhenClosed, startedClosed, wakerCalls>>
    /\ UNCHANGED <<validateStatus, flowVars, opVars, callVars>>

\* closed = await nextChange; then the loop body again, or the yield after
\* the loop
WatchWakes(w) ==
    /\ watchPc[w] = "await"
    /\ nextChange[w] \in {"false", "true"}
    /\ IF nextChange[w] = "false"
       THEN LoopBody(w)
       ELSE /\ yielded' = [yielded EXCEPT ![w] = value]
            /\ yieldsWhenClosed' = [yieldsWhenClosed EXCEPT ![w] =
                                IF isClosed THEN @ + 1 ELSE @]
            /\ watchPc' = [watchPc EXCEPT ![w] = "lastYield"]
            /\ UNCHANGED <<wakers, nextChange, wakerCalls>>
    /\ UNCHANGED <<value, setCalls, closeCalls, thrown, startedClosed>>
    /\ UNCHANGED <<validateStatus, flowVars, opVars, callVars>>

\* the consumer pulls after the last yield: the generator returns
WatchCompletes(w) ==
    /\ watchPc[w] = "lastYield"
    /\ watchPc' = [watchPc EXCEPT ![w] = "done"]
    /\ UNCHANGED <<value, wakers, setCalls, closeCalls, thrown, nextChange,
                   yielded, yieldsWhenClosed, startedClosed, wakerCalls>>
    /\ UNCHANGED <<validateStatus, flowVars, opVars, callVars>>

\* the steps of one generator whose consumer keeps pulling
WatchNext(w) ==
    \/ WatchStarts(w)
    \/ WatchResumes(w)
    \/ WatchWakes(w)
    \/ WatchCompletes(w)

StreamNext ==
    \/ set
    \/ close
    \/ \E w \in Watchers : WatchNext(w)

---------------------------------------------------------------------------
(* The provisioning flow: initial state and steps                          *)

\* the variables of a createDroplet call that has not started: the locals
\* of createDroplet and of makeCreateDropletRequest belong to one call
InitialFlow ==
    [ pc |-> "idle", req |-> NoRequest, requestCount |-> 0, keyId |-> 0,
      result |-> Pending, keyRequests |-> 0, createRequests |-> 0,
      attempts |-> <<>>, answers |-> <<>>, displayName |-> <<>>,
      dropletName |-> <<>>, sentNames |-> {}, elapsed |-> 0 ]

Init ==
    /\ validateStatus \in ValidateStatusSettings
    /\ current = 1
    /\ other = InitialFlow
    /\ InitStream
    /\ pc = "idle"
    /\ req = NoRequest
    /\ requestCount = 0
    /\ keyId = 0
    /\ result = Pending
    /\ keyRequests = 0
    /\ createRequests = 0
    /\ attempts = <<>>
    /\ answers = <<>>
    /\ opKind = "none"
    /\ opReq = NoRequest
    /\ opResult = Pending
    /\ opId = 0
    /\ opTag = <<>>
    /\ opActionPath = <<>>
    /\ displayName = <<>>
    /\ dropletName = <<>>
    /\ sentNames = {}
    /\ elapsed = 0

\* the name field of the body of a POST to path
NameSent(path, name) == [path |-> path, name |-> name]

\* createDroplet(displayName, ...): makeValidDropletName, then registerKey_
\* issues POST account/keys with the name
CreateDropletWith(names) ==
    /\ pc = "idle"
    /\ \E name \in names :
          /\ displayName' = name
          /\ dropletName' = makeValidDropletName(name)
          /\ sentNames' = sentNames \cup
                {NameSent("account/keys", makeValidDropletName(name))}
    /\ pc' = "RegisteringKey"
    /\ req' = InFlight("account/keys")
    /\ keyRequests' = keyRequests + 1
    /\ UNCHANGED <<validateStatus, requestCount, keyId, result,
                   createRequests, attempts, answers, elapsed>>
    /\ UNCHANGED opVars
    /\ UNCHANGED streamVars
    /\ UNCHANGED callVars

CreateDroplet == CreateDropletWith(DisplayNames)

\* the HTTP exchange of the flow's request ends and request()'s executor
\* runs to its end
FlowRequestSettlesWith(outcomes) ==
    /\ req.st = "inflight"
    /\ \E out \in outcomes :
          /\ req' = Settled(req, out, validateStatus)
          /\ attempts' = IF req.path = "droplets"
                         THEN Append(attempts,
                                AttemptClass(request(out, validateStatus)))
                         ELSE attempts
          /\ answers' = IF req.path = "droplets"
                        THEN Append(answers, AnswerClass(out))
                        ELSE answers
    /\ UNCHANGED <<validateStatus, pc, requestCount, keyId, result,
                   keyRequests, createRequests>>
    /\ UNCHANGED <<displayName, dropletName, sentNames, elapsed>>
    /\ UNCHANGED opVars
    /\ UNCHANGED streamVars
    /\ UNCHANGED callVars

FlowRequestSettles == FlowRequestSettlesWith(HttpOutcomes)

\* makeRequestRecursive: ++requestCount and POST droplets
MakeRequestRecursive ==
    /\ requestCount' = requestCount + 1
    /\ createRequests' = createRequests + 1
    /\ req' = InFlight("droplets")
    /\ sentNames' = sentNames \cup {NameSent("droplets", dropletName)}
    /\ pc' = "CreatingDroplet"

\* registerKey_'s then (response.ssh_key.id) and createDroplet's then:
\* makeCreateDropletRequest starts with requestCount = 0
KeyRegistered ==
    /\ pc = "RegisteringKey"
    /\ req.st = "fulfilled"
    /\ "ssh_key" \in DOMAIN req.value
    /\ keyId' = req.value.ssh_key.id
    /\ MakeRequestRecursive
    /\ UNCHANGED <<validateStatus, result, keyRequests, attempts, answers>>
    /\ UNCHANGED <<displayName, dropletName, elapsed>>
    /\ UNCHANGED opVars
    /\ UNCHANGED streamVars
    /\ UNCHANGED callVars

\* registerKey_'s then throws on a response without ssh_key: the TypeError
\* rejects createDroplet's promise
KeyResponseMalformed ==
    /\ pc = "RegisteringKey"
    /\ req.st = "fulfilled"
    /\ "ssh_key" \notin DOMAIN req.value
    /\ result' = Rejected(TypeError(StrCannotReadId))
    /\ pc' = "Failed"
    /\ UNCHANGED <<validateStatus, req, requestCount, keyId,
                   keyRequests, createRequests, attempts, answers>>
    /\ UNCHANGED <<displayName, dropletName, sentNames, elapsed>>
    /\ UNCHANGED opVars
    /\ UNCHANGED streamVars
    /\ UNCHANGED callVars

\* a rejection of the key request passes through both then's
KeyRegistrationFailed ==
    /\ pc = "RegisteringKey"
    /\ req.st = "rejected"
    /\ result' = Rejected(req.value)
    /\ pc' = "Failed"
    /\ UNCHANGED <<validateStatus, req, requestCount, keyId,
                   keyRequests, createRequests, attempts, answers>>
    /\ UNCHANGED <<displayName, dropletName, sentNames, elapsed>>
    /\ UNCHANGED opVars
    /\ UNCHANGED streamVars
    /\ UNCHANGED callVars

\* .then(fulfill)
CreateFulfilled ==
    /\ pc = "CreatingDroplet"
    /\ req.st = "fulfilled"
    /\ result' = Fulfilled(req.value)
    /\ pc' = "Success"
    /\ UNCHANGED <<validateStatus, req, requestCount, keyId,
                   keyRequests, createRequests, attempts, answers>>
    /\ UNCHANGED <<displayName, dropletName, sentNames, elapsed>>
    /\ UNCHANGED opVars
    /\ UNCHANGED streamVars
    /\ UNCHANGED callVars

\* .catch: setTimeout(makeRequestRecursive, RETRY_TIMEOUT_MS)
CreateRetryScheduled ==
    /\ pc = "CreatingDroplet"
    /\ req.st = "rejected"
    /\ ShouldRetry(req.value, requestCount)
    /\ pc' = "Retrying"
    /\ elapsed' = 0
    /\ UNCHANGED <<validateStatus, req, requestCount, keyId, result,
                   keyRequests, createRequests, attempts, answers>>
    /\ UNCHANGED <<displayName, dropletName, sentNames>>
    /\ UNCHANGED opVars
    /\ UNCHANGED streamVars
    /\ UNCHANGED callVars

\* .catch: reject(e)
CreateRejected ==
    /\ pc = "CreatingDroplet"
    /\ req.st = "rejected"
    /\ ~ShouldRetry(req.value, requestCount)
    /\ result' = Rejected(req.value)
    /\ pc' = "Failed"
    /\ UNCHANGED <<validateStatus, req, requestCount, keyId,
                   keyRequests, createRequests, attempts, answers>>
    /\ UNCHANGED <<displayName, dropletName, sentNames, elapsed>>
    /\ UNCHANGED opVars
    /\ UNCHANGED streamVars
    /\ UNCHANGED callVars

\* a retry that starts over from the key registration
RetryRegistersKeyAgain ==
    /\ pc = "Retrying"
    /\ pc' = "RegisteringKey"
    /\ req' = InFlight("account/keys")
    /\ keyRequests' = keyRequests + 1
    /\ sentNames' = sentNames \cup {NameSent("account/keys", dropletName)}
    /\ UNCHANGED <<validateStatus, requestCount, keyId, result,
                   createRequests, attempts, answers>>
    /\ UNCHANGED <<displayName, dropletName, elapsed>>
    /\ UNCHANGED opVars
    /\ UNCHANGED streamVars
    /\ UNCHANGED callVars

\* time passes while the retry timer is pending
TimePasses ==
    /\ pc = "Retrying"
    /\ elapsed < RETRY_TIMEOUT_MS
    /\ elapsed' = elapsed + TickMs
    /\ UNCHANGED <<validateStatus, pc, req, requestCount, keyId, result,
                   keyRequests, createRequests, attempts, answers>>
    /\ UNCHANGED <<displayName, dropletName, sentNames>>
    /\ UNCHANGED opVars
    /\ UNCHANGED streamVars
    /\ UNCHANGED callVars

\* a retry timer that fires without waiting
RetryTimerFiresAtOnce ==
    /\ pc = "Retrying"
    /\ MakeRequestRecursive
    /\ elapsed' = 0
    /\ UNCHANGED <<validateStatus, keyId, result, keyRequests, attempts, answers>>
    /\ UNCHANGED <<displayName, dropletName>>
    /\ UNCHANGED opVars
    /\ UNCHANGED streamVars
    /\ UNCHANGED callVars

\* the retry timer fires, RETRY_TIMEOUT_MS or more after it was set, and
\* runs makeRequestRecursive
RetryTimerFires ==
    /\ pc = "Retrying"
    /\ elapsed >= RETRY_TIMEOUT_MS
    /\ MakeRequestRecursive
    /\ elapsed' = 0
    /\ UNCHANGED <<validateStatus, keyId, result, keyRequests, attempts, answers>>
    /\ UNCHANGED <<displayName, dropletName>>
    /\ UNCHANGED opVars
    /\ UNCHANGED streamVars
    /\ UNCHANGED callVars

---------------------------------------------------------------------------
(* The simple session operations                                           *)

OpKinds == {"getAccount", "deleteDroplet", "getDropletsByTag"}

OpPath(kind) ==
    CASE kind = "getAccount" -> "account"
      [] kind = "deleteDroplet" -> "droplets/id"
      [] kind = "getDropletsByTag" -> "droplets?tag_name="

StrAccount == <<"a","c","c","o","u","n","t">>
StrDropletsSlash == <<"d","r","o","p","l","e","t","s","/">>
StrDropletsTagName ==
    <<"d","r","o","p","l","e","t","s","?","t","a","g","_","n","a","m","e","=">>

\* the characters encodeURI leaves as they are: letters, digits,
\* - _ . ! ~ * ' ( ) and the reserved ; / ? : @ & = + $ , #
EncodeURIUnescaped ==
    {UpperChars[i] : i \in 1..Len(UpperChars)}
        \cup {LowerChars[i] : i \in 1..Len(LowerChars)}
        \cup {DigitChars[i] : i \in 1..Len(DigitChars)}
        \cup {"-", "_", ".", "!", "~", "*", "'", "(", ")"}
        \cup {";", "/", "?", ":", "@", "&", "=", "+", "$", ",", "#"}

\* %XX of the UTF-8 code of a character encodeURI escapes
PercentEncoded(c) ==
    CASE c = " " -> <<"%","2","0">>
      [] c = "%" -> <<"%","2","5">>
      [] c = "\"" -> <<"%","2","2">>
      [] c = "<" -> <<"%","3","C">>

RECURSIVE encodeURI(_)
encodeURI(s) ==
    IF s = <<>> THEN <<>>
    ELSE (IF Head(s) \in EncodeURIUnescaped
          THEN <<Head(s)>> ELSE PercentEncoded(Head(s)))
         \o encodeURI(Tail(s))

MaxTagLen == 2

TagChars == {"a", "Z", " ", "%", "&", "#", "=", "?"}

Tags == StringsUpTo(TagChars, MaxTagLen) \ {<<>>}

\* the actionPath each operation builds
ActionPath(kind, id, tag) ==
    CASE kind = "getAccount" -> StrAccount
      [] kind = "deleteDroplet" -> StrDropletsSlash \o NumberToString(id)
      [] kind = "getDropletsByTag" -> StrDropletsTagName \o encodeURI(tag)

\* getAccount, deleteDroplet, getDropletsByTag: one request each
CallOperation ==
    /\ opKind = "none"
    /\ \E kind \in OpKinds :
       \E id \in (IF kind = "deleteDroplet" THEN 1..MaxDropletId ELSE {0}) :
       \E tag \in (IF kind = "getDropletsByTag" THEN Tags ELSE {<<>>}) :
          /\ opKind' = kind
          /\ opId' = id
          /\ opTag' = tag
          /\ opActionPath' = ActionPath(kind, id, tag)
          /\ opReq' = InFlight(OpPath(kind))
    /\ UNCHANGED <<validateStatus, opResult>>
    /\ UNCHANGED flowVars
    /\ UNCHANGED streamVars
    /\ UNCHANGED callVars

OpRequestSettles ==
    /\ opReq.st = "inflight"
    /\ \E out \in HttpOutcomes : opReq' = Settled(opReq, out, validateStatus)
    /\ UNCHANGED <<validateStatus, opKind, opResult, opId, opTag, opActionPath>>
    /\ UNCHANGED flowVars
    /\ UNCHANGED streamVars
    /\ UNCHANGED callVars

\* the operation's own then: getAccount projects response.account,
\* getDropletsByTag response.droplets, and deleteDroplet returns request()'s
\* promise as it is
OpProject(kind, response) ==
    CASE kind = "getAccount" ->
            IF "account" \in DOMAIN response THEN response.account ELSE Undefined
      [] kind = "getDropletsByTag" ->
            IF "droplets" \in DOMAIN response THEN response.droplets ELSE Undefined
      [] kind = "deleteDroplet" -> response

OpSettles ==
    /\ opResult.st = "pending"
    /\ opReq.st \in {"fulfilled", "rejected"}
    /\ opResult' = IF opReq.st = "fulfilled"
                   THEN Fulfilled(OpProject(opKind, opReq.value))
                   ELSE Rejected(opReq.value)
    /\ UNCHANGED <<validateStatus, opKind, opReq, opId, opTag, opActionPath>>
    /\ UNCHANGED flowVars
    /\ UNCHANGED streamVars
    /\ UNCHANGED callVars

---------------------------------------------------------------------------

\* the steps of the createDroplet flow
FlowNext ==
    \/ CreateDroplet
    \/ FlowRequestSettles
    \/ KeyRegistered
    \/ KeyResponseMalformed
    \/ KeyRegistrationFailed
    \/ CreateFulfilled
    \/ CreateRetryScheduled
    \/ CreateRejected
    \/ TimePasses
    \/ RetryTimerFires

Next == FlowNext

Spec == Init /\ [][Next]_vars

\* the steps of the simple session operations
OpsNext ==
    \/ CallOperation
    \/ OpRequestSettles
    \/ OpSettles

SpecOps == Init /\ [][OpsNext]_vars

\* a stream with its watchers; every consumer keeps pulling and every
\* resolved promise's continuation runs
InitOfStream == Init /\ validateStatus = "default"

SpecStream ==
    /\ InitOfStream
    /\ [][StreamNext]_vars
    /\ \A w \in Watchers : WF_vars(WatchNext(w))

---------------------------------------------------------------------------
(* Two concurrent createDroplet calls on one session                       *)

\* the variables of the call in control
FlowState ==
    [ pc |-> pc, req |-> req, requestCount |-> requestCount, keyId |-> keyId,
      result |-> result, keyRequests |-> keyRequests,
      createRequests |-> createRequests, attempts |-> attempts,
      answers |-> answers, displayName |-> displayName,
      dropletName |-> dropletName, sentNames |-> sentNames,
      elapsed |-> elapsed ]

\* two calls that have one requestCount between them
SwitchFlowSharedCounter ==
    /\ current' = 3 - current
    /\ other' = FlowState
    /\ pc' = other.pc
    /\ req' = other.req
    /\ keyId' = other.keyId
    /\ result' = other.result
    /\ keyRequests' = other.keyRequests
    /\ createRequests' = other.createRequests
    /\ attempts' = other.attempts
    /\ answers' = other.answers
    /\ displayName' = other.displayName
    /\ dropletName' = other.dropletName
    /\ sentNames' = other.sentNames
    /\ elapsed' = other.elapsed
    /\ UNCHANGED <<validateStatus, requestCount>>
    /\ UNCHANGED opVars
    /\ UNCHANGED streamVars

\* the event loop turns to the other call: the session has no field the
\* calls write, every variable of the flow is a local of one call
SwitchFlow ==
    /\ current' = 3 - current
    /\ other' = FlowState
    /\ pc' = other.pc
    /\ req' = other.req
    /\ requestCount' = other.requestCount
    /\ keyId' = other.keyId
    /\ result' = other.result
    /\ keyRequests' = other.keyRequests
    /\ createRequests' = other.createRequests
    /\ attempts' = other.attempts
    /\ answers' = other.answers
    /\ displayName' = other.displayName
    /\ dropletName' = other.dropletName
    /\ sentNames' = other.sentNames
    /\ elapsed' = other.elapsed
    /\ UNCHANGED validateStatus
    /\ UNCHANGED opVars
    /\ UNCHANGED streamVars

\* the display name of each of the two calls
NameOfCall(c) == IF c = 1 THEN <<"a","-","b">> ELSE <<"N","o","d","e"," ","2">>

CreateDropletOfCall == CreateDropletWith({NameOfCall(current)})

\* the provider's answers to the two calls
TwoCallOutcomes ==
    [ kind : {"response"}, status : {200, 401, 404},
      data : {KeyData(1), DropletData(1),
              ErrorData(IdForbidden, MsgFinalizing)} ]
        \cup {[kind |-> "failure"]}

TwoCallRequestSettles == FlowRequestSettlesWith(TwoCallOutcomes)

TwoCallsNext ==
    \/ SwitchFlow
    \/ CreateDropletOfCall
    \/ TwoCallRequestSettles
    \/ KeyRegistered
    \/ KeyResponseMalformed
    \/ KeyRegistrationFailed
    \/ CreateFulfilled
    \/ CreateRetryScheduled
    \/ CreateRejected
    \/ TimePasses
    \/ RetryTimerFires

SpecTwoCalls == Init /\ [][TwoCallsNext]_vars

---------------------------------------------------------------------------
(* The name sanitization over all display names                            *)

\* createDroplet called with any display name, up to the first creation
\* request
CreateDropletNamed == CreateDropletWith(Names)

NamesNext ==
    \/ CreateDropletNamed
    \/ FlowRequestSettles
    \/ KeyRegistered
    \/ KeyResponseMalformed
    \/ KeyRegistrationFailed

SpecNames == Init /\ [][NamesNext]_vars

---------------------------------------------------------------------------
(* Properties                                                              *)

\* nothing of the flow is in flight, scheduled or waiting to run
FlowQuiescent == ~ENABLED FlowNext

\* the request() promises of the model
Requests == {req, opReq}

\* the HTTP exchange of r has ended and request()'s executor has run
Ended(r) == r.st \in {"fulfilled", "rejected", "swallowed"}

Answered(r) == Ended(r) /\ r.out.kind = "response"

Contains(s, sub) ==
    \E i \in 0..(Len(s) - Len(sub)) : SubSeq(s, i + 1, i + Len(sub)) = sub

AllFinalizing(h, n) == \A i \in 1..n : h[i] = "finalizing"

C2_TenAttemptsThenReject ==
    ( /\ answers # <<>>
      /\ AllFinalizing(answers, Len(answers)) )
    => /\ createRequests <= MAX_REQUESTS
       /\ FlowQuiescent =>
            /\ createRequests = MAX_REQUESTS
            /\ pc = "Failed"
            /\ req.st = "rejected"
            /\ result = Rejected(req.value)

\* C3: when the n-th creation request (1 <= n <= 10) fails with an error
\* that does not mention 'finalizing', no further creation request is
\* issued, and the flow comes to rest rejected with exactly that failure.
C3_OtherFailureRejectsAtOnce ==
    \A n \in 1..MAX_REQUESTS :
        ( /\ Len(answers) >= n
          /\ answers[n] \in {"other", "unauthorized", "failure"} )
        => /\ createRequests = n
           /\ FlowQuiescent =>
                /\ pc = "Failed"
                /\ req.st = "rejected"
                /\ result = Rejected(req.value)

\* C4: every request() promise is fulfilled or rejected once its HTTP
\* exchange has ended, whatever the outcome: 2xx, 401, another status, or a
\* transport-level failure.
C4_EveryRequestSettles ==
    \A r \in Requests : Ended(r) => r.st \in {"fulfilled", "rejected"}

\* C5: a creation request is issued only after the one key registration has
\* succeeded; when the key registration fails, no creation request is ever
\* issued, the registration is not repeated, and the failure is handed to
\* the caller: createDroplet is rejected with it, or the callback that
\* rejects it is pending.
C5_KeyFirstAndFailurePropagates ==
    /\ keyRequests <= 1
    /\ createRequests > 0 => keyRequests = 1 /\ keyId # 0
    /\ ( /\ Ended(req)
         /\ req.path = "account/keys"
         /\ ~(req.st = "fulfilled" /\ "ssh_key" \in DOMAIN req.value) )
       => /\ createRequests = 0
          /\ \/ pc = "Failed" /\ result.st = "rejected"
             \/ ENABLED KeyRegistrationFailed
             \/ ENABLED KeyResponseMalformed
          /\ (pc = "Failed" /\ req.st = "rejected") => result = Rejected(req.value)

C7_AnsweredFlowTerminates ==
    ( /\ pc # "idle"
      /\ FlowQuiescent
      /\ Ended(req) => Answered(req) )
    => pc \in {"Success", "Failed"}

\* C8: a response with status 401 makes request() reject with the XhrError,
\* which carries no message, whatever the body.
C8_UnauthorizedRejectsXhrError ==
    \A r \in Requests :
        (Answered(r) /\ r.out.status = 401)
        => r.st = "rejected" /\ r.value = XhrError /\ r.value.message = <<>>

\* C9: a response with a non-2xx status other than 401 and a JSON error body
\* makes request() reject with an Error whose message contains the body's id
\* and its message.
C9_OtherStatusRejectsWithIdAndMessage ==
    \A r \in Requests :
        ( /\ Answered(r)
          /\ ~(r.out.status >= 200 /\ r.out.status <= 299)
          /\ r.out.status # 401
          /\ r.out.data \in ErrorBodies )
        => /\ r.st = "rejected"
           /\ r.value.name = "Error"
           /\ Contains(r.value.message, r.out.data.id)
           /\ Contains(r.value.message, r.out.data.message)

---------------------------------------------------------------------------
(* Properties of the session operations                                    *)

\* the part of s before its first character in stops
RECURSIVE UpTo(_, _)
UpTo(s, stops) ==
    IF s = <<>> \/ Head(s) \in stops THEN <<>>
    ELSE <<Head(s)>> \o UpTo(Tail(s), stops)

\* the part of s after its first c (nothing when there is no c)
RECURSIVE After(_, _)
After(s, c) ==
    IF s = <<>> THEN <<>>
    ELSE IF Head(s) = c THEN Tail(s) ELSE After(Tail(s), c)

PercentDecoded(hi, lo) ==
    CASE hi = "2" /\ lo = "0" -> " "
      [] hi = "2" /\ lo = "5" -> "%"
      [] hi = "2" /\ lo = "2" -> "\""
      [] hi = "3" /\ lo = "C" -> "<"
      [] hi = "2" /\ lo = "6" -> "&"
      [] hi = "2" /\ lo = "3" -> "#"
      [] hi = "3" /\ lo = "D" -> "="
      [] hi = "3" /\ lo = "F" -> "?"

RECURSIVE PercentDecode(_)
PercentDecode(s) ==
    IF s = <<>> THEN <<>>
    ELSE IF Head(s) = "%" /\ Len(s) >= 3
         THEN <<PercentDecoded(s[2], s[3])>> \o PercentDecode(SubSeq(s, 4, Len(s)))
         ELSE <<Head(s)>> \o PercentDecode(Tail(s))

\* the value the provider reads for the first query parameter of a URL:
\* the fragment is cut at '#', the query starts after '?', parameters are
\* separated by '&', the value follows '=' and is percent-decoded
FirstQueryValue(path) ==
    PercentDecode(After(UpTo(After(UpTo(path, {"#"}), "?"), {"&"}), "="))

\* C11: deleteDroplet answered 204 without a body resolves with no value:
\* the caller receives undefined, not an object.
C11_DeleteResolvesWithNoValue ==
    ( /\ opKind = "deleteDroplet"
      /\ Answered(opReq)
      /\ opReq.out.status = 204
      /\ opReq.out.data = EmptyString
      /\ opResult.st # "pending" )
    => opResult = Fulfilled(Undefined)

\* C14: the request of getDropletsByTag(tag) carries the tag so that the
\* provider reads back exactly that tag as tag_name, for every tag: a space
\* travels as %20 and no character of the tag alters the query; and the
\* provider's list is returned as it is.
C14_TagIsEscapedInQuery ==
    opKind = "getDropletsByTag"
    => /\ FirstQueryValue(opActionPath) = opTag
       /\ opTag = <<"a", " ">> =>
            opActionPath = StrDropletsTagName \o <<"a", "%", "2", "0">>
       /\ ( /\ opResult.st = "fulfilled"
            /\ "droplets" \in DOMAIN opReq.value )
          => opResult.value = opReq.value.droplets

---------------------------------------------------------------------------
(* Properties of the name sanitization                                     *)

\* the ASCII letters, the digits and the hyphen
LettersDigitsHyphen ==
    { "A","B","C","D","E","F","G","H","I","J","K","L","M",
      "N","O","P","Q","R","S","T","U","V","W","X","Y","Z",
      "a","b","c","d","e","f","g","h","i","j","k","l","m",
      "n","o","p","q","r","s","t","u","v","w","x","y","z",
      "0","1","2","3","4","5","6","7","8","9","-" }

\* C13: the name createDroplet uses is the display name without exactly
\* its characters outside [A-Za-z0-9-], the others in their order and case;
\* it holds only letters, digits and hyphens; sanitizing it again changes
\* nothing; and it is the name sent with the key registration and with the
\* droplet creation.
C13_SanitizationRemovesExactlyInvalid ==
    pc # "idle"
    => /\ dropletName =
            SelectSeq(displayName, LAMBDA c : c \in LettersDigitsHyphen)
       /\ \A i \in 1..Len(dropletName) : dropletName[i] \in LettersDigitsHyphen
       /\ makeValidDropletName(dropletName) = dropletName
       /\ \A sent \in sentNames : sent.name = dropletName

C13_Witness ==
    /\ pc = "CreatingDroplet"
    /\ \E i \in 1..Len(displayName) : displayName[i] \notin LettersDigitsHyphen
    /\ \E i \in 1..Len(dropletName) : dropletName[i] = "-"
    /\ {sent.path : sent \in sentNames} = {"account/keys", "droplets"}

---------------------------------------------------------------------------
(* Properties of the retry loop                                            *)

\* C16: in every reachable state of a createDroplet flow, whatever the
\* failures were, at most 10 droplet-creation requests have been issued,
\* and the attempt counter counts all of them: it is never reset.
C16_AtMostTenCreationRequests ==
    /\ createRequests <= 10
    /\ requestCount = createRequests

C16_Witness ==
    /\ createRequests = 10
    /\ Len(answers) = 10
    /\ \A i \in 1..9 : answers[i] = "finalizing"
    /\ answers[10] = "other"
    /\ pc = "Failed"

\* droplet-creation requests issued and not yet answered
Outstanding == createRequests - Len(answers)

\* C17: at most one droplet-creation request of a flow is in flight; a
\* retry request is issued only when the previous request has failed with a
\* finalizing error and 5000 ms have passed since; and no request is issued
\* once the flow has fulfilled or rejected.
C17_OneRequestAtATimeAfterDelay ==
    [][ /\ Outstanding' <= 1
        /\ (createRequests' > createRequests \/ keyRequests' > keyRequests)
           => result = Pending
        /\ createRequests' > createRequests
           => /\ Outstanding = 0
              /\ createRequests > 0
                 => /\ attempts # <<>>
                    /\ attempts[Len(attempts)] = "finalizing"
                    /\ elapsed >= 5000 ]_vars

C17_Witness ==
    /\ createRequests = 3
    /\ Outstanding = 1
    /\ pc = "CreatingDroplet"
    /\ attempts = <<"finalizing", "finalizing">>

\* C18: when a droplet-creation request was answered 401, the flow does not
\* retry: once it has nothing left to do it has rejected with the XhrError
\* of that request, and no further creation request was issued.
C18_UnauthorizedCreationRejectsFlow ==
    ( /\ answers # <<>>
      /\ answers[Len(answers)] = "unauthorized"
      /\ FlowQuiescent )
    => /\ pc = "Failed"
       /\ result = Rejected(XhrError)
       /\ createRequests = Len(answers)

---------------------------------------------------------------------------
(* Properties of concurrent calls                                          *)

\* the flow variables of the two calls
Calls == {FlowState, other}

Terminal(f) == f.pc \in {"Success", "Failed"}

\* the call's counter counts the call's own creation requests
OwnCounter(f) ==
    /\ f.requestCount = f.createRequests
    /\ f.createRequests <= 10

\* where the call stands follows from the answers to its own requests
OwnOutcome(f) ==
    /\ f.createRequests - Len(f.answers) \in {0, 1}
    /\ Len(f.attempts) = Len(f.answers)
    /\ \A i \in 1..(Len(f.attempts) - 1) : f.attempts[i] = "finalizing"
    /\ \A sent \in f.sentNames : sent.name = f.dropletName
    /\ (f.result.st = "fulfilled")
       => /\ f.attempts # <<>>
          /\ f.attempts[Len(f.attempts)] = "ok"
          /\ f.result.value = f.req.value
    /\ (f.result.st = "rejected" /\ f.createRequests > 0)
       => /\ f.attempts # <<>>
          /\ \/ f.attempts[Len(f.attempts)] = "other"
             \/ /\ f.attempts[Len(f.attempts)] = "finalizing"
                /\ f.createRequests = 10
          /\ f.result.value = f.req.value

\* C12: two concurrent createDroplet calls are independent under every
\* interleaving: each call's counter counts its own creation requests, up
\* to 10 whatever happened to the other call, each call's outcome follows
\* from the answers to its own requests, and two calls that got the same
\* answers to their creation requests end the same way.
C12_ConcurrentCallsAreIndependent ==
    /\ \A f \in Calls : OwnCounter(f) /\ OwnOutcome(f)
    /\ ( /\ Terminal(FlowState) /\ Terminal(other)
         /\ answers # <<>>
         /\ answers = other.answers )
       => result.st = other.result.st

C12_Witness ==
    /\ other.pc = "Failed"
    /\ other.createRequests = 10
    /\ other.attempts[10] = "finalizing"
    /\ pc = "Success"
    /\ createRequests = 10
    /\ requestCount = 10

---------------------------------------------------------------------------
(* Properties of ValueStream                                               *)

\* C15: a watcher that keeps pulling sees the last value: once the stream
\* is closed the watcher is eventually yielded the stream's final value,
\* whatever it skipped, and the last item a watcher is yielded is the final
\* value.
C15_WatcherSeesLastValue ==
    /\ [](\A w \in Watchers :
            watchPc[w] \in {"lastYield", "done"}
            => isClosed /\ yielded[w] = value)
    /\ isClosed
          ~> (\A w \in Watchers : watchPc[w] # "start" /\ yielded[w] = value)

C15_Witness ==
    /\ isClosed
    /\ setCalls = 2
    /\ thrown = "none"
    /\ value = 1
    /\ \E w \in Watchers :
          /\ watchPc[w] = "done"
          /\ ~startedClosed[w]
          /\ wakerCalls[w] = 1
          /\ yielded[w] = 1

\* C19: the closed state is absorbing and protects the value: a closed
\* stream stays closed, a further close() changes nothing, and a set()
\* throws 'Cannot change a closed value stream' and leaves the value.
C19_ClosedIsAbsorbing ==
    [][ isClosed
        => /\ isClosed'
           /\ value' = value
           /\ setCalls' > setCalls
              => thrown' = "Cannot change a closed value stream"
           /\ closeCalls' > closeCalls
              => UNCHANGED <<wakers, nextChange, wakerCalls, thrown, watchPc>>
      ]_vars

C19_Witness ==
    /\ isClosed
    /\ closeCalls = 2
    /\ thrown = "Cannot change a closed value stream"
    /\ value = 1

\* every waker is called at most once: a generator takes a new one only
\* when the last was called, an open stream holds exactly the wakers not
\* called yet, and a closed stream has called them all
WakersCalledOnce ==
    \A w \in Watchers :
        /\ wakerCalls[w] <= 1
        /\ nextChange[w] = "false" => wakerCalls[w] = 1
        /\ nextChange[w] = "pending"
           => /\ ~isClosed
              /\ wakerCalls[w] = 0
              /\ CountIn(wakers, w) = 1
        /\ (~isClosed /\ nextChange[w] # "pending") => CountIn(wakers, w) = 0

\* C20 as stated: every watcher whose consumer keeps pulling completes once
\* the stream is closed; a watcher started on a closed stream yields the
\* final value once and then completes; every waker is invoked exactly
\* once.
C20_WatchersTerminateOneYield ==
    /\ isClosed ~> (\A w \in Watchers : watchPc[w] = "done")
    /\ [](\A w \in Watchers :
            (watchPc[w] = "done" /\ startedClosed[w])
            => yieldsWhenClosed[w] = 1)
    /\ []WakersCalledOnce

\* C20, amended: every watcher whose consumer keeps pulling completes once
\* the stream is closed, after at most two yields on the closed stream,
\* each of the final value; a watcher started on a closed stream yields
\* the final value twice and then completes; every waker is invoked
\* exactly once.
C20_WatchersTerminateTwoYields ==
    /\ isClosed ~> (\A w \in Watchers : watchPc[w] = "done")
    /\ [](\A w \in Watchers :
            /\ yieldsWhenClosed[w] <= 2
            /\ yieldsWhenClosed[w] > 0 => yielded[w] = value
            /\ watchPc[w] = "done" => yieldsWhenClosed[w] >= 1
            /\ (watchPc[w] = "done" /\ startedClosed[w])
               => yieldsWhenClosed[w] = 2)
    /\ []WakersCalledOnce

C20_Witness ==
    \E w, x \in Watchers :
        /\ watchPc[w] = "done"
        /\ startedClosed[w]
        /\ yieldsWhenClosed[w] = 2
        /\ watchPc[x] = "done"
        /\ ~startedClosed[x]
        /\ nextChange[x] = "true"
        /\ wakerCalls[x] = 1

====
